---- MODULE Spec2Model ----
(***************************************************************************)
(* StarSync (src/app.py): the single-flight gate around rate_new_tracks,   *)
(* the trigger call sites (manual, last batch, webhook, periodic tick),    *)
(* the restartable periodic thread (start_batch_thread /                   *)
(* periodic_batch_trigger), the settings handler, the log ring with its    *)
(* stream subscribers (add_log_entry / stream) and the sweep track by      *)
(* track (rate_tracks / convert_to_plex_rating) against the server's       *)
(* libraries and ratings.                                                  *)
(*                                                                         *)
(* Every Python thread is a process with a program counter pc[t].  A log   *)
(* line is modelled by its text; the timestamp prefix that add_log_entry   *)
(* puts in front of it is left out.  Numbers that the settings form        *)
(* carries (rating values) are held in quarters: 4 stands for 1.0; the     *)
(* ratings the server holds are in hundredths: 600 stands for 6.0.         *)
(***************************************************************************)
EXTENDS Integers, Sequences, FiniteSets, TLC

\* ---------------------------------------------------------------- bounds
MaxRequests == 2       \* trigger requests (POST /manual-trigger, ...) in a run
MaxLoops    == 2       \* periodic threads ever created in a run
MaxSetters  == 2       \* settings POSTs in a run
MaxInterval == 1       \* largest batch interval, in minutes

\* The capacity of the log ring: 500 in add_log_entry, scaled down.
MaxLog == 1

MaxAppenders == 2      \* threads that call add_log_entry side by side
MaxLines     == 3      \* calls of add_log_entry they make in a run
MaxStreams   == 1      \* GET /stream connections in a run
MaxTracks    == 3      \* tracks a library holds

\* ---------------------------------------------------------------- threads
Reqs    == {<<"req", i>> : i \in 1..MaxRequests}
Workers == {<<"worker", i>> : i \in 1..MaxRequests}
Loops   == {<<"loop", i>> : i \in 1..MaxLoops}
Setters == {<<"settings", i>> : i \in 1..MaxSetters}
Appenders == {<<"appender", i>> : i \in 1..MaxAppenders}
Streams == {<<"stream", i>> : i \in 1..MaxStreams}
Threads == Reqs \cup Workers \cup Loops \cup Setters \cup Appenders \cup Streams

None == "None"
NoThread == <<"none", 0>>

\* The music sections the server has, and one name it does not have.
ServerLibs == {"A", "B"}
OtherLib   == "Z"

VARIABLES
    pc,                     \* position of every thread
    batch_lock,             \* threading.Lock: TRUE when held
    batch_running,          \* the module's batch_running flag
    rating_log,             \* the log ring
    SELECTED_LIBRARIES,     \* list of selected library names
    music_libs,             \* list of resolved library handles
    libIdx,                 \* per sweep: position of the for loop's iterator
    curLib,                 \* per sweep: the library being processed
    limit,                  \* per sweep: the limit argument
    raised,                 \* per sweep: an exception is propagating
    batch_thread,           \* the module's batch_thread (None or a loop)
    stop_event,             \* batch_thread_stop_event
    BATCH_INTERVAL_MINUTES,
    sleepLeft,              \* per loop: minutes of time.sleep still to pass
    joinTarget,             \* per settings handler: the thread it joins
    form,                   \* per settings handler: the submitted form
    TARGET_RATING_STYLE,
    TARGET_RATING_VALUE,
    OVERRIDE_RATING,
    payload,                \* per webhook request: the form's payload
    status,                 \* per request: the HTTP status answered
    log_lock,               \* threading.Lock: the thread that holds it
    listeners,              \* list of the subscribers' queues
    queue,                  \* per stream: its queue q
    lineOf,                 \* per appender: the line of the call under way
    qIdx,                   \* per appender: position of "for q in listeners"
    written,                \* per appender: calls of add_log_entry made
    history,                \* every line appended to the ring so far
    joinedAt,               \* per stream: Len(history) when it registered
    received,               \* per stream: the lines it has popped
    available,              \* sections plex.library.section resolves now
    userRating,             \* per track: track.userRating on the server
    tracks,                 \* per sweep: the tracks fetched for the library
    trackIdx,               \* per sweep: position of the loop over tracks
    plex_rating,            \* per sweep: rate_tracks' plex_rating
    counts,                 \* per sweep: rated, updated, skipped
    calls,                  \* per sweep: calls of track.rate for the library
    failedIn,               \* per sweep: the libraries whose fetch failed
    taken,                   \* per sweep: the libraries the loop has taken up
    atStart,                \* per sweep: music_libs when the sweep began
    used                    \* per sweep: the <<target, override>> applied

vars == <<pc, batch_lock, batch_running, rating_log, SELECTED_LIBRARIES,
          music_libs, libIdx, curLib, limit, raised, batch_thread, stop_event,
          BATCH_INTERVAL_MINUTES, sleepLeft, joinTarget, form,
          TARGET_RATING_STYLE, TARGET_RATING_VALUE, OVERRIDE_RATING,
          payload, status, log_lock, listeners, queue, lineOf, qIdx, written,
          history, joinedAt, received, available, userRating, tracks,
          trackIdx, plex_rating, counts, calls, failedIn, taken, atStart,
          used>>

schedVars  == <<batch_thread, stop_event, BATCH_INTERVAL_MINUTES, sleepLeft,
                joinTarget, form>>
configVars == <<TARGET_RATING_STYLE, TARGET_RATING_VALUE, OVERRIDE_RATING>>
libVars    == <<SELECTED_LIBRARIES, music_libs>>
reqVars    == <<payload, status>>
sweepVars  == <<libIdx, curLib, limit, raised>>
gateVars   == <<batch_lock, batch_running>>
logVars    == <<log_lock, listeners, queue, lineOf, qIdx, written, history,
                joinedAt, received>>
serverVars == <<available, userRating>>
rateVars   == <<tracks, trackIdx, plex_rating, counts, calls, used>>
iterVars   == <<taken, atStart, failedIn>>

\* ------------------------------------------------------------- the server
\* The tracks of a section, newest first.
TracksOf(lib) == [i \in 1..MaxTracks |-> <<lib, i>>]
Tracks == {<<lib, i>> : lib \in ServerLibs, i \in 1..MaxTracks}

\* Ratings on the server's scale are held in hundredths: 1000 stands for 10.
\* track.userRating is None for a track that has no rating.
NoRating == 0 - 1

\* A rating value that is no number (None when the setting is absent).
NoValue == 0 - 1

\* ---------------------------------------------------------------- the log
\* add_log_entry: append, then evict the oldest line beyond the limit.
add_log_entry(log, text) ==
    LET appended == Append(log, text)
    IN  IF Len(appended) > MaxLog THEN Tail(appended) ELSE appended

RECURSIVE LogAll(_, _)
LogAll(log, texts) ==
    IF texts = <<>> THEN log
    ELSE LogAll(add_log_entry(log, Head(texts)), Tail(texts))

\* A log line: its text and the one value formatted into it ("" when none).
Line(text, arg) == <<text, arg>>

SkipLine == Line("Batch already running, skipping this trigger.", "")
NoLine   == Line("", "")

\* ---- add_log_entry step by step, as a thread runs it next to other
\* threads that log and next to the readers of /stream.  The operator
\* add_log_entry above is the effect of one whole call on the ring.
\* The calls the threads of a set have made.
RECURSIVE Written(_)
Written(S) ==
    IF S = {} THEN 0
    ELSE LET a == CHOOSE x \in S : TRUE IN written[a] + Written(S \ {a})

LineBy(a, k) == Line("entry of thread " \o ToString(a[2]), ToString(k))

\* log_line = f"{timestamp} - {text}"; with log_lock:
\* The threads are numbered in the order of their first call.
LogEnter(a) ==
    /\ pc[a] = "idle"
    /\ Written(Appenders) < MaxLines
    /\ \A b \in Appenders : b[2] < a[2] => written[b] > 0
    /\ log_lock = NoThread
    /\ log_lock' = a
    /\ lineOf' = [lineOf EXCEPT ![a] = LineBy(a, written[a] + 1)]
    /\ pc' = [pc EXCEPT ![a] = "append"]
    /\ UNCHANGED <<gateVars, rating_log, libVars, sweepVars, schedVars,
                   configVars, reqVars, listeners, queue, qIdx, written,
                   history, joinedAt, received, serverVars, rateVars, iterVars>>

\* rating_log.append(log_line)
LogAppend(a) ==
    /\ pc[a] = "append"
    /\ rating_log' = Append(rating_log, lineOf[a])
    /\ history' = Append(history, lineOf[a])
    /\ pc' = [pc EXCEPT ![a] = "evict"]
    /\ UNCHANGED <<gateVars, libVars, sweepVars, schedVars, configVars,
                   reqVars, log_lock, listeners, queue, lineOf, qIdx, written,
                   joinedAt, received, serverVars, rateVars, iterVars>>

\* LogEvict with the newest line dropped instead of the oldest.
LogEvictNewest(a) ==
    /\ pc[a] = "evict"
    /\ rating_log' = IF Len(rating_log) > MaxLog
                     THEN SubSeq(rating_log, 1, Len(rating_log) - 1)
                     ELSE rating_log
    /\ qIdx' = [qIdx EXCEPT ![a] = 0]
    /\ pc' = [pc EXCEPT ![a] = "listeners"]
    /\ UNCHANGED <<gateVars, libVars, sweepVars, schedVars, configVars,
                   reqVars, log_lock, listeners, queue, lineOf, written,
                   history, joinedAt, received, serverVars, rateVars, iterVars>>

\* if len(rating_log) > 500: rating_log.pop(0); the for loop's iterator is
\* created.
LogEvict(a) ==
    /\ pc[a] = "evict"
    /\ rating_log' = IF Len(rating_log) > MaxLog THEN Tail(rating_log)
                     ELSE rating_log
    /\ qIdx' = [qIdx EXCEPT ![a] = 0]
    /\ pc' = [pc EXCEPT ![a] = "listeners"]
    /\ UNCHANGED <<gateVars, libVars, sweepVars, schedVars, configVars,
                   reqVars, log_lock, listeners, queue, lineOf, written,
                   history, joinedAt, received, serverVars, rateVars, iterVars>>

\* LogDeliver with the line put at the head of the queue.
LogDeliverAtHead(a) ==
    /\ pc[a] = "listeners"
    /\ IF qIdx[a] < Len(listeners)
       THEN /\ queue' = [queue EXCEPT ![listeners[qIdx[a] + 1]] = <<lineOf[a]>> \o @]
            /\ qIdx' = [qIdx EXCEPT ![a] = @ + 1]
            /\ UNCHANGED <<pc, log_lock, lineOf, written>>
       ELSE /\ log_lock' = NoThread
            /\ lineOf' = [lineOf EXCEPT ![a] = NoLine]
            /\ qIdx' = [qIdx EXCEPT ![a] = 0]
            /\ written' = [written EXCEPT ![a] = @ + 1]
            /\ pc' = [pc EXCEPT ![a] = "idle"]
            /\ UNCHANGED queue
    /\ UNCHANGED <<gateVars, rating_log, libVars, sweepVars, schedVars,
                   configVars, reqVars, listeners, history, joinedAt, received,
                   serverVars, rateVars, iterVars>>

\* for q in listeners: q.append(log_line), one queue a step.  The list
\* iterator reads the live list at its own index, so a queue registered
\* while the loop runs is reached by it.  When the list is exhausted the
\* with block ends and the lock is released.
LogDeliver(a) ==
    /\ pc[a] = "listeners"
    /\ IF qIdx[a] < Len(listeners)
       THEN /\ queue' = [queue EXCEPT ![listeners[qIdx[a] + 1]] = Append(@, lineOf[a])]
            /\ qIdx' = [qIdx EXCEPT ![a] = @ + 1]
            /\ UNCHANGED <<pc, log_lock, lineOf, written>>
       ELSE /\ log_lock' = NoThread
            /\ lineOf' = [lineOf EXCEPT ![a] = NoLine]
            /\ qIdx' = [qIdx EXCEPT ![a] = 0]
            /\ written' = [written EXCEPT ![a] = @ + 1]
            /\ pc' = [pc EXCEPT ![a] = "idle"]
            /\ UNCHANGED queue
    /\ UNCHANGED <<gateVars, rating_log, libVars, sweepVars, schedVars,
                   configVars, reqVars, listeners, history, joinedAt, received,
                   serverVars, rateVars, iterVars>>

\* ---- GET /stream
\* q = []; listeners.append(q); the response starts streaming.  No lock is
\* taken.
Subscribe(s) ==
    /\ pc[s] = "idle"
    /\ \A r \in Streams : r[2] < s[2] => pc[r] # "idle"
    /\ listeners' = Append(listeners, s)
    /\ queue' = [queue EXCEPT ![s] = <<>>]
    /\ joinedAt' = [joinedAt EXCEPT ![s] = Len(history)]
    /\ pc' = [pc EXCEPT ![s] = "streaming"]
    /\ UNCHANGED <<gateVars, rating_log, libVars, sweepVars, schedVars,
                   configVars, reqVars, log_lock, lineOf, qIdx, written,
                   history, received, serverVars, rateVars, iterVars>>

\* event_stream: if q: line = q.pop(0); yield it.
PopLine(s) ==
    /\ pc[s] = "streaming"
    /\ queue[s] # <<>>
    /\ received' = [received EXCEPT ![s] = Append(@, Head(queue[s]))]
    /\ queue' = [queue EXCEPT ![s] = Tail(@)]
    /\ UNCHANGED <<pc, gateVars, rating_log, libVars, sweepVars, schedVars,
                   configVars, reqVars, log_lock, listeners, lineOf, qIdx,
                   written, history, joinedAt, serverVars, rateVars, iterVars>>

stream(s) ==
    \/ Subscribe(s)
    \/ PopLine(s)

\* ------------------------------------------------------- rate_new_tracks
\* The positions of a thread inside rate_new_tracks.
GuardedPCs == {"iter", "fetch", "rate_tracks", "track", "finally"}
SweepPCs   == GuardedPCs \cup {"acquire", "skiplog"}

\* TryAcquire with the result of acquire ignored: the sweep is entered
\* whether the lock was free or not.
TryAcquireUnchecked(t) ==
    /\ pc[t] = "acquire"
    /\ batch_lock' = TRUE
    /\ batch_running' = TRUE
    /\ libIdx' = [libIdx EXCEPT ![t] = 0]
    /\ taken' = [taken EXCEPT ![t] = <<>>]
    /\ atStart' = [atStart EXCEPT ![t] = music_libs]
    /\ failedIn' = [failedIn EXCEPT ![t] = {}]
    /\ pc' = [pc EXCEPT ![t] = "iter"]
    /\ UNCHANGED <<logVars, serverVars, rateVars, rating_log, libVars, curLib, limit, raised, schedVars,
                   configVars, reqVars>>

\* if not batch_lock.acquire(blocking=False): ...; batch_running = True
TryAcquire(t) ==
    /\ pc[t] = "acquire"
    /\ IF batch_lock
       THEN /\ pc' = [pc EXCEPT ![t] = "skiplog"]
            /\ UNCHANGED <<gateVars, libIdx, iterVars>>
       ELSE /\ batch_lock' = TRUE
            /\ batch_running' = TRUE
            /\ libIdx' = [libIdx EXCEPT ![t] = 0]
            /\ taken' = [taken EXCEPT ![t] = <<>>]
            /\ atStart' = [atStart EXCEPT ![t] = music_libs]
            /\ failedIn' = [failedIn EXCEPT ![t] = {}]
            /\ pc' = [pc EXCEPT ![t] = "iter"]
    /\ UNCHANGED <<logVars, serverVars, rateVars, rating_log, libVars, curLib, limit, raised, schedVars,
                   configVars, reqVars>>

\* Where a thread goes when rate_new_tracks returns (or raises) in it.
AfterSweep(t, exc) ==
    IF t \in Loops THEN (IF exc THEN "dead" ELSE "finlog")
    ELSE IF t \in Reqs THEN "responded"
    ELSE "done"

\* SkipTrigger with the rejected trigger kept for later instead of dropped:
\* it logs and tries the gate again.
SkipTriggerRetry(t) ==
    /\ pc[t] = "skiplog"
    /\ rating_log' = add_log_entry(rating_log, SkipLine)
    /\ pc' = [pc EXCEPT ![t] = "acquire"]
    /\ UNCHANGED <<logVars, serverVars, rateVars, iterVars, gateVars, libVars, sweepVars, schedVars, configVars, reqVars>>

\* add_log_entry("Batch already running, skipping this trigger."); return
SkipTrigger(t) ==
    /\ pc[t] = "skiplog"
    /\ rating_log' = add_log_entry(rating_log, SkipLine)
    /\ pc' = [pc EXCEPT ![t] = AfterSweep(t, FALSE)]
    /\ limit' = [limit EXCEPT ![t] = None]
    /\ UNCHANGED <<logVars, serverVars, rateVars, iterVars, gateVars, libVars, libIdx, curLib, raised, schedVars,
                   configVars, reqVars>>

\* for lib in music_libs: add_log_entry(f"Processing library: {lib.title}")
\* The list iterator reads the live list at its own index.  Reading lib.title
\* may raise outside the inner try: the exception leaves through finally.
NextLibrary(t) ==
    /\ pc[t] = "iter"
    /\ IF libIdx[t] < Len(music_libs)
       THEN /\ libIdx' = [libIdx EXCEPT ![t] = @ + 1]
            /\ \/ /\ curLib' = [curLib EXCEPT ![t] = music_libs[libIdx[t] + 1]]
                  /\ rating_log' = add_log_entry(rating_log,
                         Line("Processing library", music_libs[libIdx[t] + 1]))
                  /\ taken' = [taken EXCEPT ![t] = Append(@, music_libs[libIdx[t] + 1])]
                  /\ pc' = [pc EXCEPT ![t] = "fetch"]
                  /\ UNCHANGED raised
               \/ /\ raised' = [raised EXCEPT ![t] = TRUE]
                  /\ pc' = [pc EXCEPT ![t] = "finally"]
                  /\ UNCHANGED <<curLib, rating_log, taken>>
       ELSE /\ pc' = [pc EXCEPT ![t] = "finally"]
            /\ UNCHANGED <<libIdx, curLib, raised, rating_log, taken>>
    /\ UNCHANGED <<atStart, failedIn>>
    /\ UNCHANGED <<logVars, serverVars, rateVars, gateVars, libVars, limit, schedVars, configVars, reqVars>>

\* The body of the inner try for one library:
\*   tracks = lib.searchTracks(sort='addedAt:desc', maxresults=limit)
\*   if not tracks: log "No tracks", continue
\*   rated, updated, skipped = rate_tracks(tracks); the summary line
\*   except Exception: log "Fetch error"
\* In rate_tracks a track whose rate() raises logs an error line and the
\* loop over the tracks goes on.
ProcessLibrary(t) ==
    /\ pc[t] = "fetch"
    /\ \/ rating_log' = add_log_entry(rating_log, Line("Fetch error", curLib[t]))
       \/ rating_log' = add_log_entry(rating_log, Line("No tracks", curLib[t]))
       \/ \E applyFailed \in BOOLEAN :
             rating_log' = LogAll(rating_log,
                 (IF applyFailed THEN <<Line("Error rating track", curLib[t])>> ELSE <<>>)
                 \o <<Line("Summary", curLib[t])>>)
    /\ pc' = [pc EXCEPT ![t] = "iter"]
    /\ UNCHANGED <<logVars, serverVars, rateVars, iterVars, gateVars, libVars, sweepVars, schedVars, configVars, reqVars>>

\* ReleaseGate without the finally: the release is skipped when an
\* exception is propagating.
ReleaseGateNoFinally(t) ==
    /\ pc[t] = "finally"
    /\ IF raised[t]
       THEN UNCHANGED gateVars
       ELSE /\ batch_running' = FALSE
            /\ batch_lock' = FALSE
    /\ raised' = [raised EXCEPT ![t] = FALSE]
    /\ libIdx' = [libIdx EXCEPT ![t] = 0]
    /\ curLib' = [curLib EXCEPT ![t] = ""]
    /\ limit' = [limit EXCEPT ![t] = None]
    /\ taken' = [taken EXCEPT ![t] = <<>>]
    /\ atStart' = [atStart EXCEPT ![t] = <<>>]
    /\ failedIn' = [failedIn EXCEPT ![t] = {}]
    /\ used' = [used EXCEPT ![t] = {}]
    /\ pc' = [pc EXCEPT ![t] = AfterSweep(t, raised[t])]
    /\ UNCHANGED <<logVars, serverVars, tracks, trackIdx, plex_rating, counts, calls, rating_log, libVars, schedVars, configVars, reqVars>>

\* finally: batch_running = False; batch_lock.release()
ReleaseGate(t) ==
    /\ pc[t] = "finally"
    /\ batch_running' = FALSE
    /\ batch_lock' = FALSE
    /\ raised' = [raised EXCEPT ![t] = FALSE]
    /\ libIdx' = [libIdx EXCEPT ![t] = 0]
    /\ curLib' = [curLib EXCEPT ![t] = ""]
    /\ limit' = [limit EXCEPT ![t] = None]
    /\ taken' = [taken EXCEPT ![t] = <<>>]
    /\ atStart' = [atStart EXCEPT ![t] = <<>>]
    /\ failedIn' = [failedIn EXCEPT ![t] = {}]
    /\ used' = [used EXCEPT ![t] = {}]
    /\ pc' = [pc EXCEPT ![t] = AfterSweep(t, raised[t])]
    /\ UNCHANGED <<logVars, serverVars, tracks, trackIdx, plex_rating, counts, calls, rating_log, libVars, schedVars, configVars, reqVars>>

\* ---- the body of the inner try, track by track
Max(x, y) == IF x > y THEN x ELSE y
Min(x, y) == IF x < y THEN x ELSE y
Abs(x) == IF x < 0 THEN 0 - x ELSE x

\* convert_to_plex_rating with the five-star result not clamped.
convert_to_plex_rating_unclamped(style, value) ==
    IF value = NoValue THEN 600
    ELSE IF style = "1star" THEN (IF value >= 4 THEN 1000 ELSE 0)
    ELSE 50 * value

\* convert_to_plex_rating(style, value), value in quarters, the result in
\* hundredths.  With a value that is no number both the comparison and the
\* division raise, and the except branch returns 6.
\* (value / 5.0) * 10 is 2 * value: 50 hundredths for each quarter.
convert_to_plex_rating(style, value) ==
    IF value = NoValue THEN 600
    ELSE IF style = "1star" THEN (IF value >= 4 THEN 1000 ELSE 0)
    ELSE Max(200, Min(1000, 50 * value))

\* Classify with the override flag ignored.
ClassifyAlwaysOverride(curr, target, override) ==
    IF curr = NoRating THEN "RATE"
    ELSE IF Abs(curr - target) > 1 THEN "UPDATE"
    ELSE "SKIP"

\* The branch rate_tracks takes for a track (lines 243-252); 0.01 is one
\* hundredth.
Classify(curr, target, override) ==
    IF curr = NoRating THEN "RATE"
    ELSE IF override /\ Abs(curr - target) > 1 THEN "UPDATE"
    ELSE "SKIP"

SummaryLine(lib, c) ==
    Line(lib \o ": Rated, Updated, Skipped",
         ToString(c[1]) \o ", " \o ToString(c[2]) \o ", " \o ToString(c[3]))

\* FetchTracks with a fetch error left to propagate out of the sweep.
FetchTracksNoExcept(t) ==
    /\ pc[t] = "fetch"
    /\ \/ /\ raised' = [raised EXCEPT ![t] = TRUE]
          /\ failedIn' = [failedIn EXCEPT ![t] = @ \cup {curLib[t]}]
          /\ pc' = [pc EXCEPT ![t] = "finally"]
          /\ UNCHANGED <<tracks, rating_log>>
       \/ /\ rating_log' = add_log_entry(rating_log, Line("No tracks", curLib[t]))
          /\ pc' = [pc EXCEPT ![t] = "iter"]
          /\ UNCHANGED <<tracks, failedIn, raised>>
       \/ \E n \in 1..MaxTracks :
             /\ tracks' = [tracks EXCEPT ![t] = SubSeq(TracksOf(curLib[t]), 1, n)]
             /\ pc' = [pc EXCEPT ![t] = "rate_tracks"]
             /\ UNCHANGED <<rating_log, failedIn, raised>>
    /\ UNCHANGED <<gateVars, libVars, libIdx, curLib, limit, schedVars,
                   configVars, reqVars, logVars, serverVars, trackIdx,
                   plex_rating, counts, calls, used, taken, atStart>>

\* tracks = lib.searchTracks(sort='addedAt:desc', maxresults=limit)
\* if not tracks: log "No tracks in ...", continue
\* except Exception: log "Fetch error in ..."
\* The server answers with the newest tracks the section holds at that
\* moment, as many as maxresults allows, or the call raises.
FetchTracks(t) ==
    /\ pc[t] = "fetch"
    /\ \/ /\ rating_log' = add_log_entry(rating_log, Line("Fetch error", curLib[t]))
          /\ failedIn' = [failedIn EXCEPT ![t] = @ \cup {curLib[t]}]
          /\ pc' = [pc EXCEPT ![t] = "iter"]
          /\ UNCHANGED tracks
       \/ /\ rating_log' = add_log_entry(rating_log, Line("No tracks", curLib[t]))
          /\ pc' = [pc EXCEPT ![t] = "iter"]
          /\ UNCHANGED <<tracks, failedIn>>
       \/ \E n \in 1..MaxTracks :
             /\ tracks' = [tracks EXCEPT ![t] = SubSeq(TracksOf(curLib[t]), 1, n)]
             /\ pc' = [pc EXCEPT ![t] = "rate_tracks"]
             /\ UNCHANGED <<rating_log, failedIn>>
    /\ UNCHANGED <<gateVars, libVars, sweepVars, schedVars, configVars,
                   reqVars, logVars, serverVars, trackIdx, plex_rating, counts,
                   calls, used, taken, atStart>>

\* rate_tracks(tracks): rated, updated, skipped = 0, 0, 0
\* plex_rating = convert_to_plex_rating(TARGET_RATING_STYLE, TARGET_RATING_VALUE)
EnterRateTracks(t) ==
    /\ pc[t] = "rate_tracks"
    /\ counts' = [counts EXCEPT ![t] = <<0, 0, 0>>]
    /\ calls' = [calls EXCEPT ![t] = 0]
    /\ plex_rating' = [plex_rating EXCEPT ![t] =
           convert_to_plex_rating(TARGET_RATING_STYLE, TARGET_RATING_VALUE)]
    /\ trackIdx' = [trackIdx EXCEPT ![t] = 0]
    /\ pc' = [pc EXCEPT ![t] = "track"]
    /\ UNCHANGED <<gateVars, rating_log, libVars, sweepVars, schedVars,
                   configVars, reqVars, logVars, serverVars, tracks, used,
                   iterVars>>

\* One turn of "for idx, track in enumerate(tracks, 1)": the branch is
\* chosen from track.userRating, plex_rating and OVERRIDE_RATING as they are
\* now (the flag is read only for a track that has a rating); track.rate
\* either sets the rating or raises, and then the except branch logs.
RateTrack(t) ==
    /\ pc[t] = "track"
    /\ trackIdx[t] < Len(tracks[t])
    /\ LET track  == tracks[t][trackIdx[t] + 1]
           curr   == userRating[track]
           target == plex_rating[t]
           class  == Classify(curr, target, OVERRIDE_RATING)
           flag   == IF curr = NoRating THEN {}
                     ELSE {<<"override", ToString(OVERRIDE_RATING)>>}
       IN  IF class = "SKIP"
           THEN /\ counts' = [counts EXCEPT ![t][3] = @ + 1]
                /\ used' = [used EXCEPT ![t] = @ \cup flag]
                /\ UNCHANGED <<userRating, rating_log, calls>>
           ELSE /\ calls' = [calls EXCEPT ![t] = @ + 1]
                /\ used' = [used EXCEPT ![t] =
                       @ \cup flag \cup {<<"target", ToString(target)>>}]
                /\ \/ /\ userRating' = [userRating EXCEPT ![track] = target]
                      /\ counts' = [counts EXCEPT
                             ![t][IF class = "RATE" THEN 1 ELSE 2] = @ + 1]
                      /\ rating_log' = add_log_entry(rating_log,
                             Line(IF class = "RATE" THEN "Rated" ELSE "Updated",
                                  track[1] \o ToString(track[2])))
                   \/ /\ rating_log' = add_log_entry(rating_log,
                             Line("Error rating track", track[1] \o ToString(track[2])))
                      /\ UNCHANGED <<userRating, counts>>
    /\ trackIdx' = [trackIdx EXCEPT ![t] = @ + 1]
    /\ UNCHANGED <<pc, gateVars, libVars, sweepVars, schedVars, configVars,
                   reqVars, logVars, available, tracks, plex_rating, iterVars>>

\* return rated, updated, skipped; the summary line; the next library.
LogSummary(t) ==
    /\ pc[t] = "track"
    /\ trackIdx[t] = Len(tracks[t])
    /\ rating_log' = add_log_entry(rating_log, SummaryLine(curLib[t], counts[t]))
    /\ tracks' = [tracks EXCEPT ![t] = <<>>]
    /\ trackIdx' = [trackIdx EXCEPT ![t] = 0]
    /\ plex_rating' = [plex_rating EXCEPT ![t] = 0]
    /\ counts' = [counts EXCEPT ![t] = <<0, 0, 0>>]
    /\ calls' = [calls EXCEPT ![t] = 0]
    /\ pc' = [pc EXCEPT ![t] = "iter"]
    /\ UNCHANGED <<gateVars, libVars, sweepVars, schedVars, configVars,
                   reqVars, logVars, serverVars, used, iterVars>>

\* rate_new_tracks with the inner try followed track by track.
SweepByTrack(t) ==
    \/ TryAcquire(t)
    \/ SkipTrigger(t)
    \/ NextLibrary(t)
    \/ FetchTracks(t)
    \/ EnterRateTracks(t)
    \/ RateTrack(t)
    \/ LogSummary(t)
    \/ ReleaseGate(t)

\* rate_new_tracks with the inner try taken as one step (ProcessLibrary).
rate_new_tracks(t) ==
    \/ TryAcquire(t)
    \/ SkipTrigger(t)
    \/ NextLibrary(t)
    \/ ProcessLibrary(t)
    \/ ReleaseGate(t)

\* ------------------------------------------------------------- triggers
WorkerOf(h) == <<"worker", h[2]>>

\* Dispatch with rate_new_tracks called in the handler's own thread.
DispatchInline(h, lim) ==
    /\ pc' = [pc EXCEPT ![h] = "acquire"]
    /\ limit' = [limit EXCEPT ![h] = lim]

\* threading.Thread(target=lambda: rate_new_tracks(limit=...), daemon=True).start()
\* followed by the handler's return: the new thread starts at the top of
\* rate_new_tracks and the handler has answered.
Dispatch(h, lim) ==
    /\ pc' = [pc EXCEPT ![WorkerOf(h)] = "acquire", ![h] = "responded"]
    /\ limit' = [limit EXCEPT ![WorkerOf(h)] = lim]

\* Requests are numbered in their order of arrival.
Arrives(h) ==
    /\ pc[h] = "idle"
    /\ \A g \in Reqs : g[2] < h[2] => pc[g] # "idle"

\* POST /manual-trigger: limit=None, then redirect.
manual_trigger(h) ==
    /\ Arrives(h)
    /\ Dispatch(h, None)
    /\ status' = [status EXCEPT ![h] = 302]
    /\ UNCHANGED <<logVars, serverVars, rateVars, iterVars, gateVars, rating_log, libVars, libIdx, curLib, raised,
                   schedVars, configVars, payload>>

\* POST /trigger-last-batch: limit=BATCH_SIZE, then redirect.
trigger_last_batch(h) ==
    /\ Arrives(h)
    /\ Dispatch(h, "BATCH_SIZE")
    /\ status' = [status EXCEPT ![h] = 302]
    /\ UNCHANGED <<logVars, serverVars, rateVars, iterVars, gateVars, rating_log, libVars, libIdx, curLib, raised,
                   schedVars, configVars, payload>>

\* ---- the webhook's payload.  An event name is a sequence of characters.
\* A JSON value where a string is expected: a string, no value, or a value
\* of another type.
Str(s)    == [type |-> "str", chars |-> s]
Absent    == [type |-> "absent", chars |-> <<>>]
NonString == [type |-> "nonstring", chars |-> <<>>]
\* Metadata is present and is no object.
NotADict  == "notadict"
NoSection == "nosection"

EventNames ==
    { <<>>,
      <<"n", "e", "w">>,
      <<"N", "e", "W">>,
      <<"n", "e">>,
      <<"a", ".", "N", "E", "W">>,
      <<"n", "x", "e", "w">> }

\* kind: "missing" (no payload field, or an empty one), "garbage" (json.loads
\* raises), "scalar" (a JSON document that is no object), "object".
Payloads ==
    [ kind    : {"missing", "garbage", "scalar"},
      event   : {Absent},
      section : {NoSection} ]
    \cup [ kind    : {"object"},
           event   : {Str(e) : e \in EventNames} \cup {Absent, NonString},
           section : ServerLibs \cup {OtherLib, NoSection, NotADict} ]

NoPayload == [kind |-> "none", event |-> Absent, section |-> NoSection]

\* str.lower() on one character.
LowerChar(c) ==
    CASE c = "N" -> "n"
      [] c = "E" -> "e"
      [] c = "W" -> "w"
      [] c = "A" -> "a"
      [] c = "X" -> "x"
      [] OTHER   -> c

Lower(s) == [i \in 1..Len(s) |-> LowerChar(s[i])]

\* sub in s, for strings.
Contains(sub, s) ==
    \E i \in 1..(Len(s) - Len(sub) + 1) : SubSeq(s, i, i + Len(sub) - 1) = sub

InList(x, list) == \E i \in 1..Len(list) : list[i] = x

\* WebhookOutcome with the event name compared as it is written.
WebhookOutcomeCaseSensitive(p, selected) ==
    IF p.kind = "missing"
    THEN [status |-> 400, dispatch |-> FALSE, lines |-> <<Line("No payload received in form data", "")>>]
    ELSE IF p.kind \in {"garbage", "scalar"} \/ p.section = NotADict \/ p.event = NonString
    THEN [status |-> 500, dispatch |-> FALSE, lines |-> <<Line("Webhook error", "")>>]
    ELSE IF /\ p.event # Absent
            /\ Contains(<<"n", "e", "w">>, p.event.chars)
            /\ InList(p.section, selected)
    THEN [status |-> 204, dispatch |-> TRUE, lines |-> <<Line("Webhook", p.section)>>]
    ELSE [status |-> 200, dispatch |-> FALSE, lines |-> <<Line("Webhook", p.section)>>]

\* What plex_webhook does with a payload: the status it answers, whether it
\* starts a sweep thread, and the lines it logs after "Webhook received".
\* data.get('event', '') and data.get("Metadata", {}).get(...) raise on a
\* document that is no object or whose Metadata is no object; event.lower()
\* raises on an event that is no string; every exception answers 500.
WebhookOutcome(p, selected) ==
    IF p.kind = "missing"
    THEN [status |-> 400, dispatch |-> FALSE, lines |-> <<Line("No payload received in form data", "")>>]
    ELSE IF p.kind \in {"garbage", "scalar"}
    THEN [status |-> 500, dispatch |-> FALSE, lines |-> <<Line("Webhook error", "")>>]
    ELSE IF p.section = NotADict
    THEN [status |-> 500, dispatch |-> FALSE, lines |-> <<Line("Webhook error", "")>>]
    ELSE LET event   == IF p.event = Absent THEN Str(<<>>) ELSE p.event
             section == IF p.section = NoSection THEN "" ELSE p.section
             seen    == Line("Webhook", section)
         IN  IF event = NonString
             THEN [status |-> 500, dispatch |-> FALSE, lines |-> <<seen, Line("Webhook error", "")>>]
             ELSE IF Contains(<<"n", "e", "w">>, Lower(event.chars)) /\ InList(section, selected)
             THEN [status |-> 204, dispatch |-> TRUE, lines |-> <<seen>>]
             ELSE [status |-> 200, dispatch |-> FALSE, lines |-> <<seen>>]

\* A POST /plex-webhook arrives with its form.
WebhookArrives(h, p) ==
    /\ Arrives(h)
    /\ pc' = [pc EXCEPT ![h] = "webhook"]
    /\ payload' = [payload EXCEPT ![h] = p]
    /\ UNCHANGED <<logVars, serverVars, rateVars, iterVars, gateVars, rating_log, libVars, sweepVars, schedVars,
                   configVars, status>>

\* plex_webhook
plex_webhook(h) ==
    /\ pc[h] = "webhook"
    /\ LET out == WebhookOutcome(payload[h], SELECTED_LIBRARIES)
       IN  /\ rating_log' = LogAll(rating_log, <<Line("Webhook received - start", "")>> \o out.lines)
           /\ status' = [status EXCEPT ![h] = out.status]
           /\ IF out.dispatch
              THEN Dispatch(h, "BATCH_SIZE")
              ELSE /\ pc' = [pc EXCEPT ![h] = "responded"]
                   /\ UNCHANGED limit
    /\ payload' = [payload EXCEPT ![h] = NoPayload]
    /\ UNCHANGED <<logVars, serverVars, rateVars, iterVars, gateVars, libVars, libIdx, curLib, raised, schedVars, configVars>>

\* ------------------------------------------------ periodic_batch_trigger
\* add_log_entry("Periodic batch trigger thread started, ...")
LoopStarts(l) ==
    /\ pc[l] = "started"
    /\ rating_log' = add_log_entry(rating_log,
           Line("Periodic batch trigger thread started", ToString(BATCH_INTERVAL_MINUTES)))
    /\ pc' = [pc EXCEPT ![l] = "top"]
    /\ UNCHANGED <<logVars, serverVars, rateVars, iterVars, gateVars, libVars, sweepVars, schedVars, configVars, reqVars>>

\* while not stop_event.is_set(): if interval == 0: log, break; time.sleep(...)
LoopTop(l) ==
    /\ pc[l] = "top"
    /\ IF stop_event
       THEN /\ pc' = [pc EXCEPT ![l] = "dead"]
            /\ UNCHANGED <<rating_log, sleepLeft>>
       ELSE IF BATCH_INTERVAL_MINUTES = 0
       THEN /\ rating_log' = add_log_entry(rating_log,
                   Line("Batch interval is 0 - periodic batch trigger disabled.", ""))
            /\ pc' = [pc EXCEPT ![l] = "dead"]
            /\ UNCHANGED sleepLeft
       ELSE /\ sleepLeft' = [sleepLeft EXCEPT ![l] = BATCH_INTERVAL_MINUTES]
            /\ pc' = [pc EXCEPT ![l] = "sleep"]
            /\ UNCHANGED rating_log
    /\ UNCHANGED <<logVars, serverVars, rateVars, iterVars, gateVars, libVars, sweepVars, batch_thread, stop_event,
                   BATCH_INTERVAL_MINUTES, joinTarget, form, configVars, reqVars>>

\* time.sleep(BATCH_INTERVAL_MINUTES * 60) returns when the whole time has
\* passed, and only then.
SleepOver(l) == sleepLeft[l] = 0

\* The return of time.sleep, then: if stop_event.is_set(): break;
\* add_log_entry("Periodic batch trigger started"); rate_new_tracks(limit=BATCH_SIZE)
LoopWakes(l) ==
    /\ pc[l] = "sleep"
    /\ SleepOver(l)
    /\ IF stop_event
       THEN /\ pc' = [pc EXCEPT ![l] = "dead"]
            /\ UNCHANGED <<rating_log, limit>>
       ELSE /\ rating_log' = add_log_entry(rating_log, Line("Periodic batch trigger started", ""))
            /\ limit' = [limit EXCEPT ![l] = "BATCH_SIZE"]
            /\ pc' = [pc EXCEPT ![l] = "acquire"]
    /\ sleepLeft' = [sleepLeft EXCEPT ![l] = 0]
    /\ UNCHANGED <<logVars, serverVars, rateVars, iterVars, gateVars, libVars, libIdx, curLib, raised, batch_thread,
                   stop_event, BATCH_INTERVAL_MINUTES, joinTarget, form,
                   configVars, reqVars>>

\* add_log_entry("Periodic batch trigger finished"), back to the while.
LoopFinishes(l) ==
    /\ pc[l] = "finlog"
    /\ rating_log' = add_log_entry(rating_log, Line("Periodic batch trigger finished", ""))
    /\ pc' = [pc EXCEPT ![l] = "top"]
    /\ UNCHANGED <<logVars, serverVars, rateVars, iterVars, gateVars, libVars, sweepVars, schedVars, configVars, reqVars>>

periodic_batch_trigger(l) ==
    \/ LoopStarts(l)
    \/ LoopTop(l)
    \/ LoopWakes(l)
    \/ LoopFinishes(l)

\* One minute passes for every thread that is in time.sleep.
Tick ==
    /\ \E l \in Loops : pc[l] = "sleep" /\ sleepLeft[l] > 0
    /\ sleepLeft' = [l \in Loops |->
                        IF pc[l] = "sleep" /\ sleepLeft[l] > 0
                        THEN sleepLeft[l] - 1 ELSE sleepLeft[l]]
    /\ UNCHANGED <<logVars, serverVars, rateVars, iterVars, pc, gateVars, rating_log, libVars, sweepVars, batch_thread,
                   stop_event, BATCH_INTERVAL_MINUTES, joinTarget, form,
                   configVars, reqVars>>

\* ---------------------------------------------------- start_batch_thread
\* Thread.is_alive(): started and not yet finished.
IsAlive(l) == l # NoThread /\ pc[l] \notin {"unborn", "dead"}

\* A thread object nothing refers to any more is gone; its name is free for
\* a thread created later.
Unused(l) ==
    \/ pc[l] = "unborn"
    \/ /\ pc[l] = "dead"
       /\ batch_thread # l
       /\ \A h \in Setters : joinTarget[h] # l

\* The thread a new threading.Thread(...) gets: the first free one.
FreshLoop == CHOOSE l \in Loops :
                 /\ Unused(l)
                 /\ \A k \in Loops : Unused(k) => l[2] <= k[2]

\* if batch_thread is not None and batch_thread.is_alive():
CheckAlive(h) ==
    /\ pc[h] = "sbt_check"
    /\ pc' = [pc EXCEPT ![h] = IF IsAlive(batch_thread) THEN "sbt_set" ELSE "sbt_clear"]
    /\ UNCHANGED <<logVars, serverVars, rateVars, iterVars, gateVars, rating_log, libVars, sweepVars, schedVars,
                   configVars, reqVars>>

\* batch_thread_stop_event.set(), and batch_thread is read for the join.
SetStop(h) ==
    /\ pc[h] = "sbt_set"
    /\ stop_event' = TRUE
    /\ joinTarget' = [joinTarget EXCEPT ![h] = batch_thread]
    /\ pc' = [pc EXCEPT ![h] = "sbt_join"]
    /\ UNCHANGED <<logVars, serverVars, rateVars, iterVars, gateVars, rating_log, libVars, sweepVars, batch_thread,
                   BATCH_INTERVAL_MINUTES, sleepLeft, form, configVars, reqVars>>

\* batch_thread.join() returns once that thread has finished.
JoinReturns(h) ==
    /\ pc[h] = "sbt_join"
    /\ ~IsAlive(joinTarget[h])
    /\ joinTarget' = [joinTarget EXCEPT ![h] = NoThread]
    /\ pc' = [pc EXCEPT ![h] = "sbt_clear"]
    /\ UNCHANGED <<logVars, serverVars, rateVars, iterVars, gateVars, rating_log, libVars, sweepVars, batch_thread,
                   stop_event, BATCH_INTERVAL_MINUTES, sleepLeft, form,
                   configVars, reqVars>>

\* batch_thread_stop_event.clear()
ClearStop(h) ==
    /\ pc[h] = "sbt_clear"
    /\ stop_event' = FALSE
    /\ pc' = [pc EXCEPT ![h] = "sbt_start"]
    /\ UNCHANGED <<logVars, serverVars, rateVars, iterVars, gateVars, rating_log, libVars, sweepVars, batch_thread,
                   BATCH_INTERVAL_MINUTES, sleepLeft, joinTarget, form,
                   configVars, reqVars>>

\* if BATCH_INTERVAL_MINUTES > 0: batch_thread = Thread(...); start(); log
\* else: log that no thread is started.
StartThread(h) ==
    /\ pc[h] = "sbt_start"
    /\ IF BATCH_INTERVAL_MINUTES > 0
       THEN /\ \E l \in Loops : Unused(l)
            /\ batch_thread' = FreshLoop
            /\ pc' = [pc EXCEPT ![FreshLoop] = "started", ![h] = "done"]
            /\ rating_log' = add_log_entry(rating_log,
                   Line("Batch thread started with interval", ToString(BATCH_INTERVAL_MINUTES)))
       ELSE /\ pc' = [pc EXCEPT ![h] = "done"]
            /\ rating_log' = add_log_entry(rating_log,
                   Line("Batch thread NOT started because batch interval is set to 0", ""))
            /\ UNCHANGED batch_thread
    /\ UNCHANGED <<logVars, serverVars, rateVars, iterVars, gateVars, libVars, sweepVars, stop_event,
                   BATCH_INTERVAL_MINUTES, sleepLeft, joinTarget, form,
                   configVars, reqVars>>

start_batch_thread(h) ==
    \/ CheckAlive(h)
    \/ SetStop(h)
    \/ JoinReturns(h)
    \/ ClearStop(h)
    \/ StartThread(h)

\* --------------------------------------------------------------- settings
Styles == {"1star", "5stars", "5stars_half"}

\* A submitted number as text: an integer literal ("3"), a decimal literal
\* ("2.5", "3.0"), text that is no number, or no field at all.  q is the
\* number it denotes, in quarters.
Tok(lit, q) == [lit |-> lit, q |-> q]

NoForm == [libs |-> <<>>, style |-> "", val |-> Tok("none", 0),
           override |-> "", interval |-> Tok("none", 0)]

\* float(val): accepts both literals.   int(val): accepts integer literals
\* only (int("3.0") raises ValueError, int(None) raises TypeError).
FloatParses(tok) == tok.lit \in {"int", "dec"}
IntParses(tok)   == tok.lit = "int"

\* The try block of the settings handler that validates rating_value under
\* the style now stored: [ok, q], ok FALSE when it raises.
ValidateValue(style, tok) ==
    CASE style = "1star" ->
           IF ~FloatParses(tok) THEN [ok |-> FALSE, q |-> 0]
           ELSE [ok |-> ~(tok.q < 0 \/ tok.q > 4), q |-> tok.q]
      [] style = "5stars" ->
           IF ~IntParses(tok) THEN [ok |-> FALSE, q |-> 0]
           ELSE [ok |-> ~(tok.q < 4 \/ tok.q > 20), q |-> tok.q]
      [] style = "5stars_half" ->
           IF ~FloatParses(tok) THEN [ok |-> FALSE, q |-> 0]
           ELSE [ok |-> ~(tok.q < 4 \/ tok.q > 20 \/ (tok.q * 2) % 4 # 0), q |-> tok.q]
      [] OTHER -> [ok |-> TRUE, q |-> 20]

\* if style in ['1star', '5stars', '5stars_half']: TARGET_RATING_STYLE = style
StyleAfter(old, submitted) == IF submitted \in Styles THEN submitted ELSE old

\* int(batch_interval), then the check batch_int < 0.
IntervalAccepted(tok) == tok.lit = "int" /\ ~(tok.q < 0)

\* [lib for lib in libs if lib in libraries]
RECURSIVE Filter(_, _)
Filter(list, keep) ==
    IF list = <<>> THEN <<>>
    ELSE (IF Head(list) \in keep THEN <<Head(list)>> ELSE <<>>) \o Filter(Tail(list), keep)

\* load_music_libs: the names that resolve, in order; a warning for the others.
RECURSIVE Warnings(_, _)
Warnings(names, resolvable) ==
    IF names = <<>> THEN <<>>
    ELSE (IF Head(names) \in resolvable THEN <<>>
          ELSE <<Line("Warning: Library not found or unavailable", Head(names))>>)
         \o Warnings(Tail(names), resolvable)

RECURSIVE Joined(_)
Joined(names) ==
    IF names = <<>> THEN ""
    ELSE IF Len(names) = 1 THEN Head(names)
    ELSE Head(names) \o ", " \o Joined(Tail(names))

\* POST /settings arrives with its form; the handler reads the server's
\* music sections and, when the form names any of them, replaces the
\* selection in place and resolves it again (lines 420-435).
\* resolvable: the sections plex.library.section finds at this moment.
SettingsLibraries(h, f, resolvable) ==
    LET valid_libs == Filter(f.libs, ServerLibs)
    IN  /\ pc[h] = "idle"
        /\ form' = [form EXCEPT ![h] = f]
        /\ IF valid_libs # <<>>
           THEN /\ SELECTED_LIBRARIES' = valid_libs
                /\ music_libs' = Filter(valid_libs, resolvable)
                /\ rating_log' = LogAll(rating_log,
                       Warnings(valid_libs, resolvable)
                       \o <<Line("Libraries changed to", Joined(valid_libs))>>)
           ELSE /\ UNCHANGED libVars
                /\ rating_log' = add_log_entry(rating_log,
                       Line("Invalid library selection attempted or no libraries selected.", ""))
        /\ pc' = [pc EXCEPT ![h] = "rating"]
        /\ UNCHANGED <<logVars, serverVars, rateVars, iterVars, gateVars, sweepVars, batch_thread, stop_event,
                       BATCH_INTERVAL_MINUTES, sleepLeft, joinTarget,
                       configVars, reqVars>>

\* The rating part of the handler (lines 437-461): the style, then the value
\* validated under the style now stored, then the override flag.
SettingsRating(h) ==
    LET f       == form[h]
        style   == StyleAfter(TARGET_RATING_STYLE, f.style)
        checked == ValidateValue(style, f.val)
    IN  /\ pc[h] = "rating"
        /\ TARGET_RATING_STYLE' = style
        /\ TARGET_RATING_VALUE' = IF checked.ok THEN checked.q ELSE TARGET_RATING_VALUE
        /\ OVERRIDE_RATING' = (f.override = "on")
        /\ rating_log' = LogAll(rating_log,
               (IF f.style \in Styles THEN <<>>
                ELSE <<Line("Invalid rating style", f.style)>>)
               \o (IF checked.ok THEN <<>>
                   ELSE <<Line("Invalid rating value submitted", f.val.lit)>>))
        /\ pc' = [pc EXCEPT ![h] = "interval"]
        /\ UNCHANGED <<logVars, serverVars, rateVars, iterVars, gateVars, libVars, sweepVars, schedVars, reqVars>>

\* The interval part (lines 463-482): the interval, the two lines that
\* report the rating configuration, save_settings.
SettingsInterval(h) ==
    LET f        == form[h]
        interval == IF IntervalAccepted(f.interval) THEN f.interval.q
                    ELSE BATCH_INTERVAL_MINUTES
    IN  /\ pc[h] = "interval"
        /\ BATCH_INTERVAL_MINUTES' = interval
        /\ rating_log' = LogAll(rating_log,
               <<IF IntervalAccepted(f.interval)
                 THEN Line("Batch interval set to", ToString(interval))
                 ELSE Line("Invalid batch interval submitted", f.interval.lit),
                 Line("Rating style set to", TARGET_RATING_STYLE),
                 Line("Override rating set to", ToString(OVERRIDE_RATING)),
                 Line("Settings saved.", "")>>)
        /\ pc' = [pc EXCEPT ![h] = "sbt_check"]
        /\ UNCHANGED <<logVars, serverVars, rateVars, iterVars, gateVars, libVars, sweepVars, batch_thread, stop_event,
                       sleepLeft, joinTarget, form, configVars, reqVars>>

\* return redirect(url_for('home')): the handler thread is free for the
\* next request.
SettingsReturns(h) ==
    /\ pc[h] = "done"
    /\ pc' = [pc EXCEPT ![h] = "idle"]
    /\ form' = [form EXCEPT ![h] = NoForm]
    /\ UNCHANGED <<logVars, serverVars, rateVars, iterVars, gateVars, rating_log, libVars, sweepVars, batch_thread,
                   stop_event, BATCH_INTERVAL_MINUTES, sleepLeft, joinTarget,
                   configVars, reqVars>>

settings(h) ==
    \/ SettingsRating(h)
    \/ SettingsInterval(h)
    \/ start_batch_thread(h)
    \/ SettingsReturns(h)

\* ------------------------------------------------------------ the system
\* The state once the module is loaded: the settings are read, the selected
\* libraries are resolved, and start_batch_thread() has run, which has
\* started the periodic thread when the interval is positive.
FirstLoop == <<"loop", 1>>

\* The lines logged while the module is loaded, the last of them by
\* start_batch_thread().
StartupLines(interval) ==
    <<Line("=== Starting StarSync ===", ""),
      Line("Batch interval (minutes)", ToString(interval)),
      IF interval > 0
      THEN Line("Batch thread started with interval", ToString(interval))
      ELSE Line("Batch thread NOT started because batch interval is set to 0", "")>>

\* ratings: the rating every track has on the server at that moment.
Loaded(interval, selected, resolvable, style, value, override, ratings) ==
    /\ pc = [t \in Threads |->
                IF t \in Workers \cup Loops
                THEN (IF t = FirstLoop /\ interval > 0 THEN "started" ELSE "unborn")
                ELSE "idle"]
    /\ batch_lock = FALSE
    /\ batch_running = FALSE
    /\ rating_log = LogAll(<<>>, StartupLines(interval))
    /\ SELECTED_LIBRARIES = selected
    /\ music_libs = Filter(selected, resolvable)
    /\ libIdx = [t \in Threads |-> 0]
    /\ curLib = [t \in Threads |-> ""]
    /\ limit = [t \in Threads |-> None]
    /\ raised = [t \in Threads |-> FALSE]
    /\ batch_thread = IF interval > 0 THEN FirstLoop ELSE NoThread
    /\ stop_event = FALSE
    /\ BATCH_INTERVAL_MINUTES = interval
    /\ sleepLeft = [l \in Loops |-> 0]
    /\ joinTarget = [h \in Setters |-> NoThread]
    /\ form = [h \in Setters |-> NoForm]
    /\ TARGET_RATING_STYLE = style
    /\ TARGET_RATING_VALUE = value
    /\ OVERRIDE_RATING = override
    /\ payload = [h \in Reqs |-> NoPayload]
    /\ status = [h \in Reqs |-> 0]
    /\ log_lock = NoThread
    /\ listeners = <<>>
    /\ queue = [s \in Streams |-> <<>>]
    /\ lineOf = [a \in Appenders |-> NoLine]
    /\ qIdx = [a \in Appenders |-> 0]
    /\ written = [a \in Appenders |-> 0]
    /\ history = StartupLines(interval)
    /\ joinedAt = [s \in Streams |-> 0]
    /\ received = [s \in Streams |-> <<>>]
    /\ available = resolvable
    /\ userRating = ratings
    /\ tracks = [t \in Threads |-> <<>>]
    /\ trackIdx = [t \in Threads |-> 0]
    /\ plex_rating = [t \in Threads |-> 0]
    /\ counts = [t \in Threads |-> <<0, 0, 0>>]
    /\ calls = [t \in Threads |-> 0]
    /\ failedIn = [t \in Threads |-> {}]
    /\ taken = [t \in Threads |-> <<>>]
    /\ atStart = [t \in Threads |-> <<>>]
    /\ used = [t \in Threads |-> {}]

\* The same with no track rated yet.
InitWith(interval, selected, resolvable, style, value, override) ==
    Loaded(interval, selected, resolvable, style, value, override,
           [k \in Tracks |-> NoRating])

\* ---- the gate and the triggers
MatchingPayload == [kind |-> "object", event |-> Str(<<"n", "e", "w">>), section |-> "A"]

\* Two libraries are selected and the periodic thread runs every minute.
Init == InitWith(1, <<"A", "B">>, ServerLibs, "5stars", 12, FALSE)

Next ==
    \/ \E h \in Reqs : manual_trigger(h)
    \/ \E h \in Reqs : trigger_last_batch(h)
    \/ \E h \in Reqs : WebhookArrives(h, MatchingPayload)
    \/ \E h \in Reqs : plex_webhook(h)
    \/ \E t \in Threads : rate_new_tracks(t)
    \/ \E l \in Loops : periodic_batch_trigger(l)
    \/ Tick

Spec == Init /\ [][Next]_vars

\* ---- the periodic thread under settings updates
\* A form that changes the interval only.
SchedForm(n) == [libs |-> <<"A">>, style |-> "5stars", val |-> Tok("int", 12),
                 override |-> "", interval |-> Tok("int", n)]

InitSched ==
    \E interval \in 0..MaxInterval :
        InitWith(interval, <<"A">>, ServerLibs, "5stars", 12, FALSE)

NextSched ==
    \/ \E h \in Setters, n \in 0..MaxInterval :
           SettingsLibraries(h, SchedForm(n), ServerLibs)
    \/ \E h \in Setters : settings(h)
    \/ \E l \in Loops : periodic_batch_trigger(l)
    \/ \E l \in Loops : rate_new_tracks(l)
    \/ Tick

SpecSched == InitSched /\ [][NextSched]_vars

\* ---- the webhook
InitWebhook ==
    \E selected \in {<<"A">>, <<"B", "A">>} :
        InitWith(0, selected, ServerLibs, "5stars", 12, FALSE)

NextWebhook ==
    \/ \E h \in Reqs, p \in Payloads : WebhookArrives(h, p)
    \/ \E h \in Reqs : plex_webhook(h)
    \/ \E w \in Workers : rate_new_tracks(w)

SpecWebhook == InitWebhook /\ [][NextWebhook]_vars

\* ---- the rating configuration under settings updates
ValidConfigs ==
    {<<"1star", q>> : q \in {0, 4}}
    \cup {<<"5stars", q>> : q \in {4, 8, 12, 16, 20}}
    \cup {<<"5stars_half", q>> : q \in {4, 6, 8, 10, 12, 14, 16, 18, 20}}

\* "0", "1", "3", "7", "0.5", "2.5", "2.25", "3.0", text that is no number,
\* no field.
ValueToks ==
    {Tok("int", 0), Tok("int", 4), Tok("int", 12), Tok("int", 28),
     Tok("dec", 2), Tok("dec", 10), Tok("dec", 9), Tok("dec", 12),
     Tok("junk", 0), Tok("none", 0)}

RatingForms ==
    [libs : {<<"A">>}, style : Styles \cup {"bogus"}, val : ValueToks,
     override : {"on", ""}, interval : {Tok("int", 0)}]

FirstSetter == <<"settings", 1>>

InitSettings ==
    \E c \in ValidConfigs, override \in BOOLEAN :
        InitWith(0, <<"A">>, ServerLibs, c[1], c[2], override)

NextSettings ==
    \/ \E f \in RatingForms : SettingsLibraries(FirstSetter, f, ServerLibs)
    \/ SettingsRating(FirstSetter)
    \/ SettingsInterval(FirstSetter)
    \/ CheckAlive(FirstSetter)
    \/ ClearStop(FirstSetter)
    \/ StartThread(FirstSetter)
    \/ SettingsReturns(FirstSetter)

SpecSettings == InitSettings /\ [][NextSettings]_vars

\* ---- one sweep, track by track
FirstReq == <<"req", 1>>

\* The first two requests: the second finds the gate taken or free.
TwoReqs == {<<"req", 1>>, <<"req", 2>>}

\* The ratings the tracks have at the start: unrated, 6.0, 6.02 and 6.01 in
\* turn, from a different one in every case.
RatingChoices == <<NoRating, 600, 602, 601>>

RatingsFrom(o) ==
    [k \in Tracks |->
        RatingChoices[((k[2] + o + (IF k[1] = "A" THEN 0 ELSE 1)) % 4) + 1]]

InitSweep ==
    \E o \in 0..3, override \in BOOLEAN :
        Loaded(0, <<"A", "B">>, ServerLibs, "5stars", 12, override, RatingsFrom(o))

NextSweep ==
    \/ \E h \in Reqs : manual_trigger(h)
    \/ \E w \in Workers : SweepByTrack(w)

SpecSweep == InitSweep /\ [][NextSweep]_vars

\* ---- convert_to_plex_rating on every configuration the settings file or
\* the environment can hold at start (neither is validated)
StartStyles == Styles \cup {None}
StartValues == {NoValue, 0, 2, 4, 6, 9, 10, 12, 20, 21, 28}

InitConvert ==
    \E style \in StartStyles, value \in StartValues :
        InitWith(0, <<"A">>, ServerLibs, style, value, FALSE)

NextConvert ==
    \/ \E h \in TwoReqs : manual_trigger(h)
    \/ \E h \in TwoReqs : SweepByTrack(WorkerOf(h))

SpecConvert == InitConvert /\ [][NextConvert]_vars

\* rate_new_tracks when no other sweep is triggered: the gate is free at
\* the acquire, so the skip branch is not among its steps.
SweepAlone(t) ==
    \/ TryAcquire(t)
    \/ NextLibrary(t)
    \/ FetchTracks(t)
    \/ EnterRateTracks(t)
    \/ RateTrack(t)
    \/ LogSummary(t)
    \/ ReleaseGate(t)

\* ---- a sweep next to an update of the rating configuration
ConfigForms ==
    [libs : {<<"A", "B">>}, style : {"5stars"},
     val : {Tok("int", 12), Tok("int", 20)}, override : {"on", ""},
     interval : {Tok("int", 0)}]

InitConfig ==
    Loaded(0, <<"A", "B">>, ServerLibs, "5stars", 12, TRUE, RatingsFrom(0))

SettingsAlone(h) ==
    \/ SettingsRating(h)
    \/ SettingsInterval(h)
    \/ CheckAlive(h)
    \/ ClearStop(h)
    \/ StartThread(h)
    \/ SettingsReturns(h)

NextConfig ==
    \/ manual_trigger(FirstReq)
    \/ SweepAlone(WorkerOf(FirstReq))
    \/ \E f \in ConfigForms : SettingsLibraries(FirstSetter, f, available)
    \/ SettingsAlone(FirstSetter)

SpecConfig == InitConfig /\ [][NextConfig]_vars

\* ---- a sweep next to an update of the library selection
LibForms ==
    [libs : {<<"B">>, <<"B", "A">>, <<"A", "B">>}, style : {"5stars"},
     val : {Tok("int", 12)}, override : {""}, interval : {Tok("int", 0)}]

InitLibs ==
    Loaded(0, <<"A", "B">>, ServerLibs, "5stars", 12, FALSE, RatingsFrom(0))

NextLibs ==
    \/ manual_trigger(FirstReq)
    \/ SweepAlone(WorkerOf(FirstReq))
    \/ \E f \in LibForms : SettingsLibraries(FirstSetter, f, available)
    \/ SettingsAlone(FirstSetter)

SpecLibs == InitLibs /\ [][NextLibs]_vars

\* ---- sweeps while the server's sections come and go
\* A section becomes unavailable, or available again.
ServerChanges ==
    /\ \E now \in SUBSET ServerLibs :
           /\ now # available
           /\ available' = now
    /\ UNCHANGED <<pc, gateVars, rating_log, libVars, sweepVars, schedVars,
                   configVars, reqVars, logVars, userRating, rateVars, iterVars>>

InitResolve ==
    \E resolvable \in {{"A"}, {"A", "B"}} :
        Loaded(0, <<"A", "B">>, resolvable, "5stars", 12, FALSE, RatingsFrom(0))

NextResolve ==
    \/ \E h \in Reqs : manual_trigger(h)
    \/ \E w \in Workers : SweepByTrack(w)
    \/ ServerChanges

SpecResolve == InitResolve /\ [][NextResolve]_vars

\* ---- the periodic thread next to manual triggers, with no settings update:
\* the interval stays positive and the stop event stays clear.
InitTicks ==
    \E interval \in 1..MaxInterval :
        InitWith(interval, <<"A">>, ServerLibs, "5stars", 12, FALSE)

NextTicks ==
    \/ \E h \in Reqs : manual_trigger(h)
    \/ \E w \in Workers : rate_new_tracks(w)
    \/ periodic_batch_trigger(FirstLoop)
    \/ rate_new_tracks(FirstLoop)
    \/ Tick

\* Every thread that can take a step is scheduled in the end, and the time
\* of a time.sleep passes.
FairTicks ==
    /\ WF_vars(Tick)
    /\ WF_vars(periodic_batch_trigger(FirstLoop))
    /\ WF_vars(rate_new_tracks(FirstLoop))
    /\ \A w \in Workers : WF_vars(rate_new_tracks(w))

SpecTicks == InitTicks /\ [][NextTicks]_vars /\ FairTicks

\* ---- the log ring and its subscribers
InitLog == InitWith(0, <<"A">>, ServerLibs, "5stars", 12, FALSE)

NextLog ==
    \/ \E a \in Appenders : LogEnter(a)
    \/ \E a \in Appenders : LogAppend(a)
    \/ \E a \in Appenders : LogEvict(a)
    \/ \E a \in Appenders : LogDeliver(a)
    \/ \E s \in Streams : stream(s)

SpecLog == InitLog /\ [][NextLog]_vars

\* ------------------------------------------------------------------ claims
Sweeping == {t \in Threads : pc[t] \in GuardedPCs}
Returned == {"done", "finlog", "responded"}
LastLine == rating_log[Len(rating_log)]

\* C1: at most one thread is inside the guarded body of rate_new_tracks,
\* whatever triggers (manual, last batch, webhook, periodic) are under way.
C1_SingleFlight == Cardinality(Sweeping) <= 1

\* One thread is sweeping while another has just been refused the gate.
C1_Witness ==
    \E t, u \in Threads : pc[t] = "fetch" /\ pc[u] = "skiplog"

\* C2: the gate is held exactly while a sweep is executing: every way out of
\* the sweep (the end of the list, a failed fetch, a failed rate, an
\* exception) releases it, and it is released only when held.
C2_ReleasedOnEveryExit ==
    /\ batch_lock <=> Sweeping # {}
    /\ batch_running <=> batch_lock
    /\ \A t \in Threads : pc[t] = "finally" => batch_lock

\* The periodic thread has died of an exception in its sweep, the gate was
\* released, and a trigger that came later has acquired it.
C2_Witness ==
    /\ pc[FirstLoop] = "dead"
    /\ \E w \in Workers : pc[w] = "fetch"

\* C3: a trigger that finds the gate held logs the skip line and returns,
\* leaving the gate, the libraries and every track and counter alone; a sweep is entered only by a
\* thread that found the gate free; a worker that has returned never runs
\* again.
C3_Step ==
    \A t \in Threads :
        /\ (pc[t] = "acquire" /\ batch_lock) => pc'[t] \in {"acquire", "skiplog"}
        /\ (pc[t] = "skiplog" /\ pc'[t] # "skiplog") =>
               /\ pc'[t] \in Returned
               /\ rating_log'[Len(rating_log')] = SkipLine
               /\ UNCHANGED <<gateVars, libVars, serverVars, rateVars>>
        /\ (pc[t] \notin GuardedPCs /\ pc'[t] \in GuardedPCs) =>
               (pc[t] = "acquire" /\ ~batch_lock)
        /\ pc[t] = "done" => pc'[t] = "done"

C3_Dropped == [][C3_Step]_vars

\* A refused worker has returned with the skip line as the newest line,
\* while the sweep that refused it is still running.
C3_Witness ==
    /\ LastLine = SkipLine
    /\ \E w \in Workers : pc[w] = "done"
    /\ \E t \in Threads : pc[t] = "fetch"

C7_State ==
    \A t \in Threads :
        pc[t] \in SweepPCs =>
            \/ t \in Workers /\ pc[<<"req", t[2]>>] = "responded"
            \/ t \in Loops

C7_Step ==
    \A l \in Loops :
        /\ (pc[l] = "sleep" /\ pc'[l] \notin {"sleep", "dead"}) => pc'[l] = "acquire"
        /\ (pc[l] # "finlog" /\ pc'[l] = "finlog") => pc[l] \in {"skiplog", "finally"}

LiveLoops == {l \in Loops : IsAlive(l)}

C4_OneLoop == Cardinality(LiveLoops) <= 1

\* C5, as claimed: when the update that set the interval to 0 has finished
\* start_batch_thread, with no other update under way, the scheduler is
\* stopped: no periodic thread is left asleep on its timer or running a
\* tick, so none dispatches until a later update sets a positive interval.
\* (A thread that has not yet read the interval ends without a tick when it
\* reads 0; it is not counted.)
TickPCs == {"sleep", "finlog"} \cup SweepPCs

C5_StoppedAtZero ==
    \A h \in Setters :
        ( /\ pc[h] = "done"
          /\ form[h].interval = Tok("int", 0)
          /\ BATCH_INTERVAL_MINUTES = 0
          /\ \A g \in Setters \ {h} : pc[g] = "idle" )
        => \A l \in Loops : pc[l] \notin TickPCs

\* C6, as claimed: a periodic thread that is asleep when start_batch_thread
\* waits for it can leave its sleep at once.
C6_Interruptible ==
    \A h \in Setters, l \in Loops :
        (pc[h] = "sbt_join" /\ joinTarget[h] = l /\ pc[l] = "sleep" /\ stop_event)
        => ENABLED LoopWakes(l)

\* C8: the answer of plex_webhook and whether it starts a sweep thread are
\* decided by the payload and the selection: 204 and a thread with the batch
\* limit exactly when the event name contains "new" in any case and the
\* section is selected; 400 for no payload; 500 for a payload that is no JSON
\* object with a string event and an object Metadata; 200 otherwise.
HasNew(chars) ==
    \E i \in 1..(Len(chars) - 2) :
        /\ chars[i] \in {"n", "N"}
        /\ chars[i + 1] \in {"e", "E"}
        /\ chars[i + 2] \in {"w", "W"}

WellFormed(p) ==
    p.kind = "object" /\ p.event # NonString /\ p.section # NotADict

Matches(p, selected) ==
    /\ WellFormed(p)
    /\ HasNew(p.event.chars)
    /\ \E i \in 1..Len(selected) : selected[i] = p.section

C8_Step ==
    \A h \in Reqs :
        (pc[h] = "webhook" /\ pc'[h] # "webhook") =>
            LET p       == payload[h]
                matches == Matches(p, SELECTED_LIBRARIES)
                started == /\ pc[WorkerOf(h)] = "unborn"
                           /\ pc'[WorkerOf(h)] = "acquire"
                           /\ limit'[WorkerOf(h)] = "BATCH_SIZE"
            IN  /\ pc'[h] = "responded"
                /\ started <=> matches
                /\ ~started => pc'[WorkerOf(h)] = pc[WorkerOf(h)]
                /\ status'[h] = 204 <=> matches
                /\ status'[h] = 400 <=> p.kind = "missing"
                /\ status'[h] = 500 <=> (p.kind # "missing" /\ ~WellFormed(p))
                /\ status'[h] = 200 <=> (WellFormed(p) /\ ~matches)

C8_WebhookOutcome == [][C8_Step]_vars

\* One webhook was answered 204 and its sweep is running; another was
\* answered 200.
C8_Witness ==
    \E h, g \in Reqs :
        /\ status[h] = 204 /\ pc[WorkerOf(h)] = "fetch"
        /\ status[g] = 200

\* The configuration the settings form is about.
RatingConfig == <<TARGET_RATING_STYLE, TARGET_RATING_VALUE, OVERRIDE_RATING>>

\* The constraint a style puts on a value (in quarters).
ValueFits(style, q) ==
    CASE style = "1star"       -> q \in {0, 4}
      [] style = "5stars"      -> q \in {4, 8, 12, 16, 20}
      [] style = "5stars_half" -> q >= 4 /\ q <= 20 /\ q % 2 = 0
      [] OTHER                 -> FALSE

InvalidForm(f) ==
    \/ f.style \notin Styles
    \/ f.val.lit \notin {"int", "dec"}
    \/ ~ValueFits(f.style, f.val.q)

ValidationErrors ==
    {"Invalid rating style", "Invalid rating value submitted"}

\* C9, as claimed: an update whose style or value is invalid leaves the
\* configuration as it was and logs a validation error.
C9_Step ==
    \A h \in Setters :
        (pc[h] = "rating" /\ pc'[h] # "rating" /\ InvalidForm(form[h])) =>
            /\ RatingConfig' = RatingConfig
            /\ rating_log'[Len(rating_log')][1] \in ValidationErrors

C9_Rejected == [][C9_Step]_vars

\* C10, as claimed: the stored value satisfies the constraint of the stored
\* style.
C10_ValueFitsStyle == ValueFits(TARGET_RATING_STYLE, TARGET_RATING_VALUE)

\* The newest n lines of a sequence.
Newest(n, lines) == SubSeq(lines, Len(lines) - n + 1, Len(lines))

After(s) == SubSeq(history, joinedAt[s] + 1, Len(history))

\* The lines stream s has read and those waiting in its queue.
Delivered(s) == received[s] \o queue[s]

IsPrefix(p, q) == Len(p) <= Len(q) /\ p = SubSeq(q, 1, Len(p))

\* C12, as claimed: what a subscriber reads is exactly the lines appended
\* after its registration, in append order: at every moment a prefix of
\* them, and all of them once no call of add_log_entry is under way.
C12_Original ==
    \A s \in Streams :
        pc[s] = "streaming" =>
            /\ IsPrefix(Delivered(s), After(s))
            /\ log_lock = NoThread => Delivered(s) = After(s)

\* C12, amended: the same, except that the line whose call of add_log_entry
\* was writing to the queues when the subscriber registered may come first.
\* It is the newest line appended before the registration.
InFlight(s) ==
    IF joinedAt[s] > 0 THEN <<history[joinedAt[s]]>> ELSE <<>>

C12_InOrderFromRegistration ==
    \A s \in Streams :
        pc[s] = "streaming" =>
            /\ \/ IsPrefix(Delivered(s), After(s))
               \/ IsPrefix(Delivered(s), InFlight(s) \o After(s))
            /\ log_lock = NoThread =>
                   \/ Delivered(s) = After(s)
                   \/ Delivered(s) = InFlight(s) \o After(s)

\* A subscriber has read the lines of all the threads, all appended after
\* it registered.
C12_Witness ==
    \E s \in Streams :
        /\ \A a \in Appenders : \E i \in 1..Len(received[s]) : received[s][i] = LineBy(a, 1)
        /\ Delivered(s) = After(s)

\* C13: the rating rate_tracks applies lies in [0, 10]; under 1star it is 10
\* for a value of at least 1 and 0 below; under the other styles it is
\* value / 5 * 10 brought into [2, 10]; for a value that is no number it is 6.
C13_ConvertInRange ==
    \A t \in Threads :
        pc[t] = "track" =>
            LET style == TARGET_RATING_STYLE
                v     == TARGET_RATING_VALUE
                p     == plex_rating[t]
            IN  /\ p >= 0 /\ p <= 1000
                /\ v = NoValue => p = 600
                /\ (v # NoValue /\ style = "1star") =>
                       (IF v >= 4 THEN p = 1000 ELSE p = 0)
                /\ (v # NoValue /\ style \in {"5stars", "5stars_half"}) =>
                       /\ p >= 200
                       /\ 50 * v < 200 => p = 200
                       /\ 50 * v > 1000 => p = 1000
                       /\ (50 * v >= 200 /\ 50 * v <= 1000) => p = 50 * v

\* A value of 7 stored at start under a five-star style is applied as 10.
C13_Witness ==
    \E t \in Threads :
        /\ pc[t] = "track"
        /\ TARGET_RATING_STYLE = "5stars"
        /\ TARGET_RATING_VALUE = 28
        /\ plex_rating[t] = 1000

\* C14: the turn of the loop for one track calls track.rate exactly when the
\* track has no rating (RATE) or has one, the override flag is on and the
\* rating is more than 0.01 away from the target (UPDATE); otherwise (SKIP)
\* it touches neither the track nor the log; a successful RATE, an UPDATE
\* and a SKIP each count in their own counter.
C14_Step ==
    \A t \in Threads :
        (pc[t] = "track" /\ trackIdx'[t] = trackIdx[t] + 1) =>
            LET track   == tracks[t][trackIdx[t] + 1]
                curr    == userRating[track]
                target  == plex_rating[t]
                present == curr # NoRating
                differs == curr - target > 1 \/ target - curr > 1
                rate    == ~present
                update  == present /\ OVERRIDE_RATING /\ differs
                skip    == present /\ (~OVERRIDE_RATING \/ ~differs)
                called  == calls'[t] = calls[t] + 1
                bumped(i) == counts'[t] = [counts[t] EXCEPT ![i] = @ + 1]
                applied == userRating' = [userRating EXCEPT ![track] = target]
                failed  == counts'[t] = counts[t] /\ userRating' = userRating
            IN  /\ called <=> (rate \/ update)
                /\ ~called => calls'[t] = calls[t]
                /\ rate => ((bumped(1) /\ applied) \/ failed)
                /\ update => ((bumped(2) /\ applied) \/ failed)
                /\ skip => (bumped(3) /\ userRating' = userRating
                                      /\ rating_log' = rating_log)
                /\ bumped(1) => rate
                /\ bumped(2) => update
                /\ bumped(3) => skip

C14_Classified == [][C14_Step]_vars

\* A library of three tracks, one of each class, has been gone through.
C14_Witness ==
    \E t \in Threads :
        /\ pc[t] = "track"
        /\ counts[t] = <<1, 1, 1>>
        /\ calls[t] = 2

\* A thread ends its work on a library whose fetch did not fail.
LibraryDone(t) ==
    /\ pc[t] \in {"fetch", "track"}
    /\ pc'[t] = "iter"
    /\ failedIn'[t] = failedIn[t]

\* C15, as claimed: when a library is done and no track.rate failed in it,
\* the counts add up to the number of tracks fetched, one action line was
\* logged for every track counted as rated or updated and none for a
\* skipped one, and the line logged last is the one summary line of the
\* library, carrying these counts.
C15_Step ==
    \A t \in Threads :
        /\ (LibraryDone(t) /\ calls[t] = counts[t][1] + counts[t][2]) =>
               /\ counts[t][1] + counts[t][2] + counts[t][3] = Len(tracks[t])
               /\ rating_log'[Len(rating_log')] = SummaryLine(curLib[t], counts[t])
        /\ (pc[t] = "track" /\ trackIdx'[t] = trackIdx[t] + 1) =>
               LET acted == counts'[t][1] + counts'[t][2] > counts[t][1] + counts[t][2]
               IN  /\ acted => rating_log'[Len(rating_log')][1] \in {"Rated", "Updated"}
                   /\ counts'[t][3] > counts[t][3] => rating_log' = rating_log

C15_CountsPartition == [][C15_Step]_vars

\* C16: a failed fetch logs its error line and the loop over the libraries
\* goes on from where it is; a failed track.rate logs its error line and the
\* loop over the tracks goes on with the next track; neither raises out of
\* the sweep nor lets go of the gate; when the tracks of a library are
\* through, every one of them was visited, and when the sweep ends normally
\* every library of the list was taken up.
C16_Step ==
    \A t \in Threads :
        /\ (pc[t] = "fetch" /\ failedIn'[t] # failedIn[t]) =>
               /\ pc'[t] = "iter"
               /\ libIdx'[t] = libIdx[t]
               /\ ~raised'[t]
               /\ batch_lock'
               /\ rating_log'[Len(rating_log')] = Line("Fetch error", curLib[t])
        /\ (pc[t] = "track" /\ calls'[t] = calls[t] + 1 /\ counts'[t] = counts[t]) =>
               /\ pc'[t] = "track"
               /\ trackIdx'[t] = trackIdx[t] + 1
               /\ tracks'[t] = tracks[t]
               /\ ~raised'[t]
               /\ batch_lock'
               /\ rating_log'[Len(rating_log')][1] = "Error rating track"

C16_State ==
    \A t \in Threads :
        /\ (pc[t] = "track" /\ trackIdx[t] = Len(tracks[t])) =>
               counts[t][3] + calls[t] = Len(tracks[t])
        /\ (pc[t] = "finally" /\ ~raised[t]) => taken[t] = atStart[t]

C16_FailuresIsolated == []C16_State /\ [][C16_Step]_vars

\* The fetch of A failed; in B the rating of the first track failed, the
\* second track was skipped and the third updated after it.
C16_Witness ==
    \E t \in Threads :
        /\ pc[t] = "track"
        /\ curLib[t] = "B"
        /\ failedIn[t] = {"A"}
        /\ trackIdx[t] = 3
        /\ userRating[<<"B", 1>>] = NoRating
        /\ calls[t] = 2
        /\ counts[t] = <<0, 1, 1>>

\* C20, as claimed: the step that ends a library whose fetch did not fail,
\* however many tracks came back, appends one line, the summary line with
\* the library's rated, updated and skipped counts.
C20_Step ==
    \A t \in Threads :
        LibraryDone(t) =>
            rating_log' = add_log_entry(rating_log, SummaryLine(curLib[t], counts[t]))

C20_SummaryAlways == [][C20_Step]_vars

\* C17, as claimed: every track of one sweep is rated or updated with the
\* same target and classified with the same override flag (those of the
\* configuration as it stood when the sweep was dispatched).
C17_OneSnapshot ==
    \A t \in Threads :
        /\ Cardinality({u \in used[t] : u[1] = "target"}) <= 1
        /\ Cardinality({u \in used[t] : u[1] = "override"}) <= 1

\* C18, as claimed: the libraries a sweep has taken up are at every moment
\* the first ones of the list as it stood when the sweep began, in that
\* order, and all of them when the sweep ends normally.
C18_SelectionAtStart ==
    \A t \in Threads :
        pc[t] \in GuardedPCs =>
            /\ IsPrefix(taken[t], atStart[t])
            /\ (pc[t] = "finally" /\ ~raised[t]) => taken[t] = atStart[t]

\* C19, as claimed: when a sweep starts, the selection is resolved again:
\* the list the sweep goes through holds every selected library that
\* resolves now, and a selected library that does not resolve gets its
\* warning line.
C19_Step ==
    \A t \in Threads :
        (pc[t] = "acquire" /\ pc'[t] = "iter") =>
            /\ \A i \in 1..Len(SELECTED_LIBRARIES) :
                   SELECTED_LIBRARIES[i] \in available =>
                       InList(SELECTED_LIBRARIES[i], music_libs')
            /\ rating_log' = LogAll(rating_log, Warnings(SELECTED_LIBRARIES, available))

C19_ResolvedAtStart == [][C19_Step]_vars

\* C21: a periodic tick that finds the gate held skips its sweep, logs the
\* skip line and the loop goes on to the next wait; and while the interval
\* is positive and no stop is requested, the periodic thread dispatches a
\* tick again and again, whatever became of the sweep of the tick before.
C21_Step ==
    /\ (pc[FirstLoop] = "acquire" /\ batch_lock /\ pc'[FirstLoop] # "acquire") =>
           pc'[FirstLoop] = "skiplog"
    /\ (pc[FirstLoop] = "skiplog" /\ pc'[FirstLoop] # "skiplog") =>
           /\ pc'[FirstLoop] = "finlog"
           /\ rating_log'[Len(rating_log')] = SkipLine
           /\ UNCHANGED gateVars
    /\ (pc[FirstLoop] = "finlog" /\ pc'[FirstLoop] # "finlog") =>
           pc'[FirstLoop] = "top"

TickDispatched == pc[FirstLoop] = "acquire"

C21_TicksForever ==
    /\ [][C21_Step]_vars
    /\ [](BATCH_INTERVAL_MINUTES > 0 /\ ~stop_event) => []<>TickDispatched

====
